---- MODULE Spec2Model ----
(***************************************************************************)
(* Model of extensions-builtin/sd_forge_freeu/scripts/forge_freeu.py.       *)
(*                                                                         *)
(* Patcher objects live in a heap (a sequence indexed by object identity). *)
(* Slider values are integers counting hundredths (the sliders step 0.01). *)
(***************************************************************************)
EXTENDS Integers, Sequences, FiniteSets, TLC

VARIABLES heap, p, call, cb, ff

vars == <<heap, p, call, cb, ff>>

(* ------------------------------ bounds --------------------------------- *)

\* most patcher objects alive at once (clone() allocates one)
MaxObjects == 2

\* most callbacks registered on one patcher object
MaxPatches == 2

(* --------------------------- patcher objects ---------------------------- *)

\* identity of the patcher the host loaded, the one first handed to the installer
Original == 1

\* value getattr(diffusion_model, 'model_channels', 320) falls back to
DefaultModelChannels == 320

\* a patcher as the installer sees it: its type name, the attributes present on
\* it, on its .model and on its .model.diffusion_model, and its registered
\* output-block callbacks
Patcher(tn, a, ma, da, mc) ==
    [type_name |-> tn, attrs |-> a, model_attrs |-> ma, dm_attrs |-> da,
     model_channels |-> mc, patches |-> <<>>]

HostApi == {"clone", "set_model_output_block_patch"}
Blocks == {"input_blocks", "output_blocks"}

\* the patchers the host may hand over
PatcherKinds ==
    { Patcher("UnetPatcher", HostApi \cup {"model"}, {"diffusion_model"}, Blocks \cup {"model_channels"}, 1),
      Patcher("UnetPatcher", HostApi \cup {"model"}, {"diffusion_model"}, Blocks, 0),
      Patcher("UnetPatcher", HostApi \cup {"model"}, Blocks \cup {"model_channels"}, {}, 2),
      Patcher("UnetPatcher", HostApi \cup Blocks \cup {"model_channels"}, {}, {}, 1),
      Patcher("UnetPatcher", HostApi \cup {"model"}, {"diffusion_model"}, {"input_blocks", "model_channels"}, 1),
      Patcher("UnetPatcher", HostApi \cup {"model"}, {"output_blocks"}, {}, 0),
      Patcher("UnetPatcher", HostApi, {}, {}, 0),
      Patcher("UnetPatcher", {"set_model_output_block_patch", "model"}, {"diffusion_model"}, Blocks \cup {"model_channels"}, 1),
      Patcher("UnetPatcher", {"clone", "model"}, {"diffusion_model"}, Blocks \cup {"model_channels"}, 1),
      Patcher("FluxPatcher", HostApi \cup {"model"}, {"diffusion_model"}, {}, 0),
      Patcher("UnetPatcher", HostApi \cup {"flux_attributes", "model"}, {"diffusion_model"}, Blocks \cup {"model_channels"}, 1),
      Patcher("FluxPatcher", {"clone", "model"}, {"diffusion_model"}, {}, 0) }

\* the four slider values (b1, b2, s1, s2) of one run, in hundredths
ParamChoices == { <<101, 102, 99, 95>>, <<150, 50, 200, 0>> }

\* what a host method does when called: work, or raise an Exception
HostFaults == {"none", "clone", "set"}

(* ------------------------------ installer ------------------------------- *)

is_flux_model(model) ==
    model.type_name \in {"FluxPatcher"} \/ "flux_attributes" \in model.attrs

\* attributes of the object lines 96-106 resolve as diffusion_model
DiffusionModelAttrs(o) ==
    IF "model" \in o.attrs
    THEN IF "diffusion_model" \in o.model_attrs THEN o.dm_attrs ELSE o.model_attrs
    ELSE o.attrs

ModelChannels(o) ==
    IF "model_channels" \in DiffusionModelAttrs(o) THEN o.model_channels
    ELSE DefaultModelChannels

\* the two pairs under each other's key
ScaleDictSwapped(mc, b1, b2, s1, s2) ==
    [k \in {mc * 4, mc * 2} |-> IF k = mc * 2 THEN <<b1, s1>> ELSE <<b2, s2>>]

\* scale_dict = {model_channels * 4: (b1, s1), model_channels * 2: (b2, s2)};
\* in a dict display the later of two equal keys wins
ScaleDict(mc, b1, b2, s1, s2) ==
    [k \in {mc * 4, mc * 2} |-> IF k = mc * 2 THEN <<b2, s2>> ELSE <<b1, s1>>]

\* the closure flux_output_block_patch
FluxClosure(b1, b2, s1, s2) ==
    [family |-> "flux", model_channels |-> 0, b1 |-> b1, b2 |-> b2, s1 |-> s1, s2 |-> s2,
     scale_dict |-> <<>>]

\* the closure output_block_patch
StandardClosure(mc, b1, b2, s1, s2) ==
    [family |-> "standard", model_channels |-> mc, b1 |-> b1, b2 |-> b2, s1 |-> s1, s2 |-> s2,
     scale_dict |-> ScaleDict(mc, b1, b2, s1, s2)]

\* obj.set_model_output_block_patch(patch) on heap object id
SetPatch(h, id, patch) ==
    [h EXCEPT ![id].patches = Append(@, patch)]

\* unet_patcher.clone(): a new object carrying a copy of everything
Clone(h, id) == Append(h, h[id])

\* outcome of the installer: what it returned or that it raised, and the heap after
Returned(h, id) == [raised |-> FALSE, exc |-> "", ret |-> id, heap |-> h]
Raised(h, exc) == [raised |-> TRUE, exc |-> exc, ret |-> 0, heap |-> h]

\* lines 79-94
PatchFlux(h, id, b1, b2, s1, s2, fault) ==
    IF "set_model_output_block_patch" \in h[id].attrs
    THEN IF fault = "set" THEN Raised(h, "RuntimeError")
         ELSE Returned(SetPatch(h, id, FluxClosure(b1, b2, s1, s2)), id)
    ELSE Returned(h, id)

\* lines 115-135
PatchStandard(h, id, b1, b2, s1, s2, fault) ==
    IF "clone" \notin h[id].attrs THEN Raised(h, "AttributeError")
    ELSE IF fault = "clone" THEN Raised(h, "RuntimeError")
    \* from here on a raise leaves the clone unreachable, and it is collected
    ELSE IF "set_model_output_block_patch" \notin h[id].attrs THEN Raised(h, "AttributeError")
    ELSE IF fault = "set" THEN Raised(h, "RuntimeError")
    ELSE Returned(SetPatch(Clone(h, id), Len(h) + 1,
                                StandardClosure(ModelChannels(h[id]), b1, b2, s1, s2)),
                       Len(h) + 1)

\* the compatibility test with "and" for "or"
patch_freeu_v2_BothMissing(h, id, b1, b2, s1, s2, fault) ==
    IF is_flux_model(h[id]) THEN PatchFlux(h, id, b1, b2, s1, s2, fault)
    ELSE IF "input_blocks" \notin DiffusionModelAttrs(h[id])
            /\ "output_blocks" \notin DiffusionModelAttrs(h[id])
         THEN Returned(h, id)
    ELSE PatchStandard(h, id, b1, b2, s1, s2, fault)

patch_freeu_v2(h, id, b1, b2, s1, s2, fault) ==
    IF is_flux_model(h[id]) THEN PatchFlux(h, id, b1, b2, s1, s2, fault)
    ELSE IF "input_blocks" \notin DiffusionModelAttrs(h[id])
            \/ "output_blocks" \notin DiffusionModelAttrs(h[id])
         THEN Returned(h, id)
    ELSE PatchStandard(h, id, b1, b2, s1, s2, fault)

(* --------------------------- sampling handler --------------------------- *)

\* dict.update
DictUpdate(d, n) ==
    [k \in DOMAIN d \cup DOMAIN n |-> IF k \in DOMAIN n THEN n[k] ELSE d[k]]

\* b2 and s1 logged under each other's key
FreeUParamsSwapped(en, b1, b2, s1, s2) ==
    [freeu_enabled |-> en, freeu_b1 |-> b1, freeu_b2 |-> s1,
     freeu_s1 |-> b2, freeu_s2 |-> s2]

FreeUParams(en, b1, b2, s1, s2) ==
    [freeu_enabled |-> en, freeu_b1 |-> b1, freeu_b2 |-> b2,
     freeu_s1 |-> s1, freeu_s2 |-> s2]

NoCall == [op |-> "none"]

\* superclass of each exception class the installer can raise
Base == [AttributeError |-> "Exception", RuntimeError |-> "Exception",
         Exception |-> "BaseException", BaseException |-> "object"]

RECURSIVE IsSubclass(_, _)
IsSubclass(c, d) ==
    IF c = d THEN TRUE
    ELSE IF c \notin DOMAIN Base THEN FALSE
    ELSE IsSubclass(Base[c], d)

\* a clause that catches AttributeError only
CaughtAttributeErrorOnly(exc) == IsSubclass(exc, "AttributeError")

\* the clause "except Exception as e" of the handler
Caught(exc) == IsSubclass(exc, "Exception")

\* what the host sees of one call of the handler
Observed(en, ps, unet, called, r, prop) ==
    [op |-> "process", enabled |-> en, args |-> ps, installer_called |-> called,
     raised |-> r.raised, arg |-> unet, ret |-> r.ret, propagated |-> prop]

\* FreeUForForge.process_before_every_sampling, whole handler
process_before_every_sampling(en, b1, b2, s1, s2, fault) ==
    LET unet == p.sd_model.forge_objects.unet
        r == patch_freeu_v2(heap, unet, b1, b2, s1, s2, fault)
    IN  IF ~ en
        THEN /\ call' = Observed(en, <<b1, b2, s1, s2>>, unet, FALSE, Returned(heap, 0), FALSE)
             /\ UNCHANGED <<heap, p>>
        ELSE /\ Len(r.heap) <= MaxObjects
             /\ \A i \in 1..Len(r.heap) : Len(r.heap[i].patches) <= MaxPatches
             /\ heap' = r.heap
             /\ IF r.raised
                THEN /\ call' = Observed(en, <<b1, b2, s1, s2>>, unet, TRUE, r, ~ Caught(r.exc))
                     /\ UNCHANGED p
                ELSE /\ call' = Observed(en, <<b1, b2, s1, s2>>, unet, TRUE, r, FALSE)
                     /\ p' = [sd_model |-> [forge_objects |-> [unet |-> r.ret]],
                              extra_generation_params |->
                                  DictUpdate(p.extra_generation_params,
                                             FreeUParams(en, b1, b2, s1, s2))]

Process ==
    \E en \in BOOLEAN, ps \in ParamChoices, fault \in HostFaults :
        /\ process_before_every_sampling(en, ps[1], ps[2], ps[3], ps[4], fault)
        \* a new sampling pass: nothing of the last pass's callbacks is left
        /\ cb' = NoCall
        /\ UNCHANGED ff

(* ------------------------------- tensors -------------------------------- *)

\* A feature map whose numbers matter (h of the standard family) is
\* [shape |-> <<B, C, H, W>>, data |-> [channel |-> [flattened position |-> number]]]
\* with B = 1 and every number an exact fraction <<n, d>>; d = 0 is a
\* non-finite float (<<0, 0>> is NaN).
\* A feature map that is only passed through transforms (hsp, and h of the
\* transformer family) is [shape, chan], chan[c] naming the input channel it
\* came from and the transforms applied to it, in order.

RECURSIVE Gcd(_, _)
Gcd(a, b) == IF b = 0 THEN a ELSE Gcd(b, a % b)

Abs(n) == IF n < 0 THEN 0 - n ELSE n
Sign(n) == IF n < 0 THEN 0 - 1 ELSE IF n = 0 THEN 0 ELSE 1

NaN == <<0, 0>>

\* the fraction n/d in lowest terms, d > 0; x/0 is NaN or a signed infinity
Frac(n, d) ==
    IF d = 0 THEN <<Sign(n), 0>>
    ELSE LET g == Gcd(Abs(n), Abs(d)) IN <<Sign(d) * (n \div g), Abs(d) \div g>>

Finite(a) == a[2] # 0

RAdd(a, b) == IF Finite(a) /\ Finite(b) THEN Frac(a[1] * b[2] + b[1] * a[2], a[2] * b[2]) ELSE NaN
RSub(a, b) == IF Finite(a) /\ Finite(b) THEN Frac(a[1] * b[2] - b[1] * a[2], a[2] * b[2]) ELSE NaN
RMul(a, b) == IF Finite(a) /\ Finite(b) THEN Frac(a[1] * b[1], a[2] * b[2]) ELSE NaN
RDiv(a, b) == IF Finite(a) /\ Finite(b) THEN Frac(a[1] * b[2], a[2] * b[1]) ELSE NaN
RLeq(a, b) == a[1] * b[2] <= b[1] * a[2]

\* a slider value, kept in hundredths, as a number
Hundredths(k) == Frac(k, 100)

Channels(t) == t.shape[2]
Height(t) == t.shape[3]
Width(t) == t.shape[4]
Positions(t) == 1..(Height(t) * Width(t))

\* a transform applied to a channel
Op(name, args, region) == [op |-> name, args |-> args, region |-> region]

\* indices a Python slice start:stop selects in a dimension of size n
SliceIndices(start, stop, n) ==
    LET norm(i) == IF i < 0 THEN (IF i + n < 0 THEN 0 ELSE i + n)
                   ELSE IF i > n THEN n ELSE i
    IN  { i \in 0..(n - 1) : norm(start) <= i /\ i < norm(stop) }

(* --------------------------- Fourier_filter ----------------------------- *)

\* the positions line 32 assigns scale to, in the shifted spectrum
Fourier_region(H, W, threshold) ==
    LET crow == H \div 2
        ccol == W \div 2
    IN  SliceIndices(crow - threshold, crow + threshold, H)
            \X SliceIndices(ccol - threshold, ccol + threshold, W)

Fourier_mask(H, W, threshold, scale) ==
    [rc \in (0..(H - 1)) \X (0..(W - 1)) |->
        IF rc \in Fourier_region(H, W, threshold) THEN scale ELSE 100]

Fourier_filter(x, threshold, scale) ==
    [shape |-> x.shape,
     chan |-> [c \in 1..Channels(x) |->
                 [x.chan[c] EXCEPT !.ops =
                     Append(@, Op("Fourier_filter", <<threshold, scale>>,
                                  Fourier_region(Height(x), Width(x), threshold)))]]]

(* ------------------------- standard-family callback -------------------- *)

\* sum of channels lo..hi of h at position q
RECURSIVE ChannelSum(_, _, _, _)
ChannelSum(h, q, lo, hi) ==
    IF lo > hi THEN Frac(0, 1)
    ELSE IF lo = hi THEN h.data[lo][q]
    ELSE LET mid == (lo + hi) \div 2
         IN  RAdd(ChannelSum(h, q, lo, mid), ChannelSum(h, q, mid + 1, hi))

\* h.mean(1) at the flattened positions 1..n
RECURSIVE HiddenMeanUpTo(_, _)
HiddenMeanUpTo(h, n) ==
    IF n = 0 THEN <<>>
    ELSE Append(HiddenMeanUpTo(h, n - 1),
                RDiv(ChannelSum(h, n, 1, Channels(h)), Frac(Channels(h), 1)))

\* h.mean(1), one number per flattened position
HiddenMean(h) == HiddenMeanUpTo(h, Height(h) * Width(h))

HiddenMax(hm) == CHOOSE m \in {hm[q] : q \in DOMAIN hm} : \A q \in DOMAIN hm : RLeq(hm[q], m)
HiddenMin(hm) == CHOOSE m \in {hm[q] : q \in DOMAIN hm} : \A q \in DOMAIN hm : RLeq(m, hm[q])

\* line 128 at the positions 1..n
RECURSIVE NormalizedUpTo(_, _, _, _)
NormalizedUpTo(hm, hidden_max, hidden_min, n) ==
    IF n = 0 THEN <<>>
    ELSE Append(NormalizedUpTo(hm, hidden_max, hidden_min, n - 1),
                RDiv(RSub(hm[n], hidden_min), RSub(hidden_max, hidden_min)))

\* line 128: (hidden_mean - hidden_min) / (hidden_max - hidden_min)
Normalized(h) ==
    LET hm == HiddenMean(h)
    IN  NormalizedUpTo(hm, HiddenMax(hm), HiddenMin(hm), Len(hm))

\* (scale[0] - 1) * hidden_mean + 1 at the positions 1..n
RECURSIVE FactorUpTo(_, _, _)
FactorUpTo(nm, block_scale, n) ==
    IF n = 0 THEN <<>>
    ELSE Append(FactorUpTo(nm, block_scale, n - 1),
                RAdd(RMul(RSub(Hundredths(block_scale), Frac(1, 1)), nm[n]), Frac(1, 1)))

\* the rescaling without the slice, over every channel
BlockRescaleAll(h, block_scale) ==
    LET nm == Normalized(h)
        factor == FactorUpTo(nm, block_scale, Len(nm))
    IN  [h EXCEPT !.data =
            [c \in 1..Channels(h) |->
                [q \in Positions(h) |-> RMul(h.data[c][q], factor[q])]]]

\* line 129: h[:, :C // 2] = h[:, :C // 2] * ((scale[0] - 1) * hidden_mean + 1)
BlockRescale(h, block_scale) ==
    LET nm == Normalized(h)
        factor == FactorUpTo(nm, block_scale, Len(nm))
    IN  [h EXCEPT !.data =
            [c \in 1..Channels(h) |->
                IF c <= Channels(h) \div 2
                THEN [q \in Positions(h) |-> RMul(h.data[c][q], factor[q])]
                ELSE h.data[c]]]

\* the callback: f is the closure, the result is the pair it returns
output_block_patch(f, h, hsp) ==
    IF Channels(h) \in DOMAIN f.scale_dict
    THEN LET scale == f.scale_dict[Channels(h)]
         IN  [h |-> BlockRescale(h, scale[1]), hsp |-> Fourier_filter(hsp, 1, scale[2])]
    ELSE [h |-> h, hsp |-> hsp]

(* ------------------------ transformer-family callback ------------------- *)

flow_transform(x, scale) ==
    [x EXCEPT !.chan = [c \in DOMAIN x.chan |->
        [x.chan[c] EXCEPT !.ops = Append(@, Op("flow_transform", <<scale>>, {}))]]]

fourier_region(H, W) ==
    LET crow == H \div 2
        ccol == W \div 2
    IN  SliceIndices(crow - H \div 4, crow + H \div 4, H)
            \X SliceIndices(ccol - W \div 4, ccol + W \div 4, W)

fourier_filter(x, scale) ==
    [x EXCEPT !.chan = [c \in DOMAIN x.chan |->
        [x.chan[c] EXCEPT !.ops = Append(@, Op("fourier_filter", <<scale>>,
                                              fourier_region(Height(x), Width(x))))]]]

non_linear_transform(x, scale1, scale2) ==
    [x EXCEPT !.chan = [c \in DOMAIN x.chan |->
        [x.chan[c] EXCEPT !.ops = Append(@, Op("non_linear_transform", <<scale1, scale2>>, {}))]]]

\* torch.chunk(h, chunks, dim=1): pieces of ceil(C / chunks) channels, the last
\* one possibly shorter, and as many pieces as that takes
Chunk(h, chunks) ==
    LET C == Channels(h)
        size == (C + chunks - 1) \div chunks
        n == (C + size - 1) \div size
    IN  [i \in 1..n |->
            LET lo == (i - 1) * size + 1
                hi == IF i * size < C THEN i * size ELSE C
            IN  [shape |-> <<h.shape[1], hi - lo + 1, h.shape[3], h.shape[4]>>,
                 chan |-> [c \in 1..(hi - lo + 1) |-> h.chan[lo + c - 1]]]]

\* torch.cat(ts, dim=1)
RECURSIVE Cat(_)
Cat(ts) ==
    IF Len(ts) = 1 THEN ts[1]
    ELSE LET front == Cat(SubSeq(ts, 1, Len(ts) - 1))
             last == ts[Len(ts)]
         IN  [shape |-> <<front.shape[1], front.shape[2] + last.shape[2],
                          front.shape[3], front.shape[4]>>,
              chan |-> front.chan \o last.chan]

\* the loop body with the filter ahead of flow_transform
ProcessChunkFilterFirst(chunk, b1, b2, s1, s2) ==
    non_linear_transform(flow_transform(fourier_filter(chunk, s1), b1), b2, s2)

\* lines 49-51, the body of the loop
ProcessChunk(chunk, b1, b2, s1, s2) ==
    non_linear_transform(fourier_filter(flow_transform(chunk, b1), s1), b2, s2)

apply_freeu_to_flux(h, b1, b2, s1, s2) ==
    LET chunks == Chunk(h, 4)
    IN  Cat([i \in 1..Len(chunks) |-> ProcessChunk(chunks[i], b1, b2, s1, s2)])

\* the callback: f is the closure
flux_output_block_patch(f, h) ==
    [h |-> apply_freeu_to_flux(h, f.b1, f.b2, f.s1, f.s2), hsp |-> "None"]

(* -------------------------- the host's inputs --------------------------- *)

\* largest feature map the small standard-family models are driven with
MaxChannels == 4
MaxSide == 2

\* most channels of a transformer-family feature map
MaxFluxChannels == 8

Seeds == {0, 1}

\* the feature maps <<C, H, W, seed>> the host calls the standard-family
\* callback with: every small one, and the decoder widths of a model whose
\* model_channels is the default
HInputs ==
    ((1..MaxChannels) \X (1..MaxSide) \X (1..MaxSide) \X Seeds)
        \cup {<<k * DefaultModelChannels, 1, 2, 1>> : k \in 2..4}

\* channel counts and spatial sizes (H, W) of the transformer-family inputs
FluxChannelChoices == 1..MaxFluxChannels
FluxSideChoices == {<<1, 1>>, <<4, 6>>, <<5, 8>>}

\* a feature map of numbers: constant for seed 0, varying otherwise
NumTensor(C, H, W, seed) ==
    [shape |-> <<1, C, H, W>>,
     data |-> [c \in 1..C |-> [q \in 1..(H * W) |->
                 IF seed = 0 THEN Frac(2, 1) ELSE Frac(((c + 2 * q) % 5) - 1, 1)]]]

\* a feature map of named channels
SymTensor(C, H, W) ==
    [shape |-> <<1, C, H, W>>,
     chan |-> [c \in 1..C |-> [src |-> c, ops |-> <<>>]]]

\* the host runs a registered standard-family callback on a decoder block
HostCallsOutputBlockPatch ==
    \E i \in 1..Len(heap[p.sd_model.forge_objects.unet].patches),
       in \in HInputs :
        LET f == heap[p.sd_model.forge_objects.unet].patches[i]
            h == NumTensor(in[1], in[2], in[3], in[4])
            hsp == SymTensor(2, in[2], in[3])
        IN  /\ cb = NoCall
            /\ f.family = "standard"
            /\ cb' = [op |-> "output_block_patch", closure |-> f, h_in |-> h, hsp_in |-> hsp,
                      out |-> output_block_patch(f, h, hsp), raised |-> FALSE]
            /\ UNCHANGED <<heap, p, call, ff>>

\* the host runs a registered transformer-family callback
HostCallsFluxOutputBlockPatch ==
    \E i \in 1..Len(heap[p.sd_model.forge_objects.unet].patches),
       C \in FluxChannelChoices, hw \in FluxSideChoices :
        LET f == heap[p.sd_model.forge_objects.unet].patches[i]
            h == SymTensor(C, hw[1], hw[2])
        IN  /\ cb = NoCall
            /\ f.family = "flux"
            /\ cb' = [op |-> "flux_output_block_patch", closure |-> f, h_in |-> h,
                      chunks |-> Chunk(h, 4),
                      out |-> flux_output_block_patch(f, h), raised |-> FALSE]
            /\ UNCHANGED <<heap, p, call, ff>>

\* the callback's return: the host takes the pair and goes on with its forward
\* pass; callbacks run synchronously, one at a time
HostTakesResult ==
    /\ cb # NoCall
    /\ cb' = NoCall
    /\ UNCHANGED <<heap, p, call, ff>>

(* ------------------------------- machine -------------------------------- *)

Init ==
    /\ \E k \in PatcherKinds : heap = <<k>>
    /\ p = [sd_model |-> [forge_objects |-> [unet |-> Original]],
            extra_generation_params |-> [Steps |-> 20]]
    /\ call = NoCall
    /\ cb = NoCall
    /\ ff = NoCall

Next ==
    \/ Process
    \/ HostCallsOutputBlockPatch
    \/ HostCallsFluxOutputBlockPatch
    \/ HostTakesResult

Spec == Init /\ [][Next]_vars

(* ---------------------- Fourier_filter on its own ----------------------- *)

\* largest height and width, and largest threshold, Fourier_filter is tried on
MaxDim == 4
MaxThreshold == 5

ScaleChoices == {0, 99, 200}

InitFourier ==
    /\ heap = <<>>
    /\ p = [sd_model |-> [forge_objects |-> [unet |-> 0]],
            extra_generation_params |-> [Steps |-> 20]]
    /\ call = NoCall
    /\ cb = NoCall
    /\ \E H \in 1..MaxDim, W \in 1..MaxDim, t \in 0..MaxThreshold, sc \in ScaleChoices :
          ff = [op |-> "input", x |-> SymTensor(1, H, W), threshold |-> t, scale |-> sc,
                mask |-> <<>>, out |-> <<>>]

CallFourierFilter ==
    /\ ff.op = "input"
    /\ ff' = [ff EXCEPT !.op = "Fourier_filter",
                        !.mask = Fourier_mask(Height(ff.x), Width(ff.x), ff.threshold, ff.scale),
                        !.out = Fourier_filter(ff.x, ff.threshold, ff.scale)]
    /\ UNCHANGED <<heap, p, call, cb>>

NextFourier == CallFourierFilter

SpecFourier == InitFourier /\ [][NextFourier]_vars

(* ------------------------------- claims --------------------------------- *)

FreeUKeys == {"freeu_enabled", "freeu_b1", "freeu_b2", "freeu_s1", "freeu_s2"}

Unet == p.sd_model.forge_objects.unet

\* C1: whatever installer calls were made, the patcher the host handed over
\* first has no callback registered on it: callbacks go on clones only.
C1_OriginalNeverPatched ==
    Len(heap) >= 1 => heap[Original].patches = <<>>

\* C2: when the installer raises inside the handler, the handler does not
\* propagate it, the host's unet reference and parameter log are what they
\* were, and no patcher object was changed.
C2_RaiseIsContained ==
    [][ (call'.op = "process" /\ call'.raised)
            => /\ ~ call'.propagated
               /\ p'.sd_model.forge_objects.unet = call'.arg
               /\ p' = p
               /\ heap' = heap ]_vars

C2_Witness ==
    /\ call.op = "process"
    /\ call.enabled /\ call.installer_called /\ call.raised /\ ~ call.propagated
    /\ Unet = call.arg

\* C3: an object with no transformer marker whose resolved diffusion model
\* lacks input_blocks or output_blocks comes back as the same reference, not
\* cloned, with nothing registered, and without an error.
C3_IncompatibleIsReturnedAsIs ==
    [][ ( /\ call'.op = "process" /\ call'.installer_called
          /\ ~ is_flux_model(heap[call'.arg])
          /\ ~ (Blocks \subseteq DiffusionModelAttrs(heap[call'.arg])) )
            => /\ ~ call'.raised
               /\ call'.ret = call'.arg
               /\ heap' = heap ]_vars

C3_Witness ==
    /\ call.op = "process" /\ call.installer_called
    /\ ~ is_flux_model(heap[call.arg])
    /\ "input_blocks" \in DiffusionModelAttrs(heap[call.arg])
    /\ "output_blocks" \notin DiffusionModelAttrs(heap[call.arg])
    /\ call.ret = call.arg
    /\ Len(heap) = 1

\* C4: the four-chunk pipeline fails with an error whenever the channel count
\* is not divisible by 4.
C4_IndivisibleChannelsRaise ==
    (cb.op = "flux_output_block_patch" /\ Channels(cb.h_in) % 4 # 0) => cb.raised

\* what fourier_filter scales: the quarter-extent centred rectangle
QuarterRegion(H, W) ==
    { rc \in (0..(H - 1)) \X (0..(W - 1)) :
        /\ H \div 2 - H \div 4 <= rc[1] /\ rc[1] < H \div 2 + H \div 4
        /\ W \div 2 - W \div 4 <= rc[2] /\ rc[2] < W \div 2 + W \div 4 }

\* C6: a channel count that is a positive multiple of 4 is split into 4 equal
\* contiguous groups, every channel goes through flow_transform(b1),
\* fourier_filter(s1), non_linear_transform(b2, s2) in that order, and the
\* groups come back in their original order, so the shape is unchanged.
C6_FourEqualChunksInOrder ==
    (cb.op = "flux_output_block_patch" /\ Channels(cb.h_in) % 4 = 0) =>
        LET C == Channels(cb.h_in)
            f == cb.closure
            region == QuarterRegion(Height(cb.h_in), Width(cb.h_in))
        IN  /\ ~ cb.raised
            /\ Len(cb.chunks) = 4
            /\ \A i \in 1..4 :
                  /\ Channels(cb.chunks[i]) = C \div 4
                  /\ Len(cb.chunks[i].chan) = C \div 4
                  /\ \A j \in 1..(C \div 4) :
                        cb.chunks[i].chan[j] = cb.h_in.chan[(i - 1) * (C \div 4) + j]
            /\ cb.out.h.shape = cb.h_in.shape
            /\ Len(cb.out.h.chan) = C
            /\ \A c \in 1..C :
                  /\ cb.out.h.chan[c].src = c
                  /\ cb.out.h.chan[c].ops =
                        << [op |-> "flow_transform", args |-> <<f.b1>>, region |-> {}],
                           [op |-> "fourier_filter", args |-> <<f.s1>>, region |-> region],
                           [op |-> "non_linear_transform", args |-> <<f.b2, f.s2>>,
                            region |-> {}] >>
            /\ cb.out.hsp = "None"

C6_Witness ==
    /\ cb.op = "flux_output_block_patch"
    /\ Channels(cb.h_in) = 8
    /\ Len(cb.chunks) = 4
    /\ Channels(cb.chunks[3]) = 2
    /\ cb.out.h.chan[5].ops # <<>>

\* sum over channels lo..hi of the (integer) inputs at position q
RECURSIVE InputSum(_, _, _, _)
InputSum(h, q, lo, hi) ==
    IF lo = hi THEN h.data[lo][q][1]
    ELSE InputSum(h, q, lo, (lo + hi) \div 2) + InputSum(h, q, (lo + hi) \div 2 + 1, hi)

\* the channel sums at the positions 1..n
RECURSIVE InputSums(_, _)
InputSums(h, n) ==
    IF n = 0 THEN <<>> ELSE Append(InputSums(h, n - 1), InputSum(h, n, 1, Channels(h)))

\* every channel c in cs of out is channel c of in times
\* (b - 1) * normalized + 1, where normalized is the channel mean brought to
\* [0, 1] by its minimum and maximum over the positions (b in hundredths; 0/0
\* is NaN)
RescaledBy(in, out, cs, b) ==
    LET S == InputSums(in, Height(in) * Width(in))
        hi == CHOOSE m \in {S[q] : q \in Positions(in)} : \A q \in Positions(in) : S[q] <= m
        lo == CHOOSE m \in {S[q] : q \in Positions(in)} : \A q \in Positions(in) : m <= S[q]
    IN  \A c \in cs, q \in Positions(in) :
            IF hi = lo THEN out.data[c][q] = NaN
            ELSE /\ out.data[c][q][2] > 0
                 /\ out.data[c][q][1] * 100 * (hi - lo)
                        = out.data[c][q][2] * in.data[c][q][1]
                            * ((b - 100) * (S[q] - lo) + 100 * (hi - lo))

\* every channel of hsp went through Fourier_filter once, with threshold 1
FilteredBy(in, out, s) ==
    /\ out.shape = in.shape
    /\ \A c \in 1..Channels(in) :
          /\ out.chan[c].src = in.chan[c].src
          /\ Len(out.chan[c].ops) = 1
          /\ out.chan[c].ops[1].op = "Fourier_filter"
          /\ out.chan[c].ops[1].args = <<1, s>>

\* C5: a callback built with model_channels m and (b1, b2, s1, s2) applies
\* (b1, s1) to a map of 4m channels, (b2, s2) to one of 2m channels, and
\* returns h and hsp as they came for every other channel count.
C5_DispatchOnChannelCount ==
    cb.op = "output_block_patch" =>
        LET f == cb.closure
            C == Channels(cb.h_in)
            applied(b, s) ==
                /\ RescaledBy(cb.h_in, cb.out.h, 1..(C \div 2), b)
                /\ FilteredBy(cb.hsp_in, cb.out.hsp, s)
        IN  IF C = 4 * f.model_channels THEN applied(f.b1, f.s1)
            ELSE IF C = 2 * f.model_channels THEN applied(f.b2, f.s2)
            ELSE cb.out.h = cb.h_in /\ cb.out.hsp = cb.hsp_in

C5_Witness ==
    /\ cb.op = "output_block_patch"
    /\ cb.closure.model_channels = DefaultModelChannels
    /\ Channels(cb.h_in) = 4 * DefaultModelChannels
    /\ cb.out.h # cb.h_in
    /\ cb.out.hsp # cb.hsp_in

\* C7: when the channel count C has a scale, the channels below C // 2 are
\* multiplied by (block_scale - 1) * normalized + 1 and every channel from
\* C // 2 on holds exactly the value it had on entry.
C7_SecondHalfUntouched ==
    (cb.op = "output_block_patch" /\ Channels(cb.h_in) \in DOMAIN cb.closure.scale_dict) =>
        LET C == Channels(cb.h_in)
            block_scale == cb.closure.scale_dict[C][1]
        IN  /\ cb.out.h.shape = cb.h_in.shape
            /\ RescaledBy(cb.h_in, cb.out.h, {c \in 1..C : c - 1 < C \div 2}, block_scale)
            /\ \A c \in 1..C : c - 1 >= C \div 2 => cb.out.h.data[c] = cb.h_in.data[c]

C7_Witness ==
    /\ cb.op = "output_block_patch"
    /\ Channels(cb.h_in) \in DOMAIN cb.closure.scale_dict
    /\ Channels(cb.h_in) = 4
    /\ cb.out.h.data[1] # cb.h_in.data[1]
    /\ Finite(cb.out.h.data[1][1])
    /\ cb.out.h.data[3] = cb.h_in.data[3]

\* C8: the handler logs the five UI values and stores the installer's return
\* value as the unet exactly when FreeU is enabled and the installer returned;
\* otherwise the log and the unet reference are untouched, and when FreeU is
\* disabled the installer is not even called.
C8_RecordedExactlyOnSuccess ==
    [][ call'.op = "process" =>
          /\ (call'.enabled /\ ~ call'.raised) =>
                /\ call'.installer_called
                /\ p'.sd_model.forge_objects.unet = call'.ret
                /\ DOMAIN p'.extra_generation_params
                      = DOMAIN p.extra_generation_params \cup FreeUKeys
                /\ p'.extra_generation_params.freeu_enabled = call'.enabled
                /\ p'.extra_generation_params.freeu_b1 = call'.args[1]
                /\ p'.extra_generation_params.freeu_b2 = call'.args[2]
                /\ p'.extra_generation_params.freeu_s1 = call'.args[3]
                /\ p'.extra_generation_params.freeu_s2 = call'.args[4]
                /\ \A k \in DOMAIN p.extra_generation_params \ FreeUKeys :
                      p'.extra_generation_params[k] = p.extra_generation_params[k]
          /\ ~ (call'.enabled /\ ~ call'.raised) => p' = p
          /\ ~ call'.enabled => (~ call'.installer_called /\ heap' = heap) ]_vars

C8_Witness ==
    /\ call.op = "process" /\ call.enabled /\ ~ call.raised
    /\ Unet = call.ret
    /\ call.ret # call.arg
    /\ p.extra_generation_params.freeu_b1 = call.args[1]
    /\ p.extra_generation_params.Steps = 20

\* the centred square of C9, clipped to the tensor
ClippedSquare(H, W, threshold) ==
    { rc \in (0..(H - 1)) \X (0..(W - 1)) :
        /\ H \div 2 - threshold <= rc[1] /\ rc[1] < H \div 2 + threshold
        /\ W \div 2 - threshold <= rc[2] /\ rc[2] < W \div 2 + threshold }

\* C9: for every H, W >= 1 and threshold >= 0, Fourier_filter multiplies by
\* scale exactly the centred square of half-side threshold clipped to the
\* tensor, and every other shifted-frequency position by 1.
C9_RegionIsClippedSquare ==
    ff.op = "Fourier_filter" =>
        LET H == Height(ff.x)
            W == Width(ff.x)
        IN  /\ ff.out.chan[1].ops[1].region = ClippedSquare(H, W, ff.threshold)
            /\ \A rc \in (0..(H - 1)) \X (0..(W - 1)) :
                  ff.mask[rc] = IF rc \in ClippedSquare(H, W, ff.threshold)
                                THEN ff.scale ELSE 100

\* C10: whenever the FreeU parameters are in the parameter log, the patcher
\* stored as the unet has a FreeU callback registered on it.
C10_LoggedImpliesPatched ==
    (Len(heap) >= 1 /\ "freeu_enabled" \in DOMAIN p.extra_generation_params)
        => heap[Unet].patches # <<>>

====
